---- MODULE Spec2Model ----
(***************************************************************************)
(* Model of the brochure cost calculator (src/src/BrochureCalculator.tsx). *)
(*                                                                         *)
(* Strings are sequences of one-character strings.  Money amounts are in   *)
(* hundredths of a currency unit (0.04 is 4, 1.2 is 120), so the           *)
(* arithmetic of the source is modelled as exact decimal arithmetic; the   *)
(* rounding of IEEE doubles is not modelled.                               *)
(***************************************************************************)
EXTENDS Integers, Sequences, FiniteSets, TLC

VARIABLES
    pages,            \* useState<number>(8)
    colorPagesInput,  \* useState<string>('')
    brochureCount,    \* useState<number>(1)
    isA3,             \* useState<boolean>(false)
    breakdown,        \* useState<Breakdown | null>(null)
    error,            \* useState<string>('')
    effectPending,    \* the effect is scheduled (mount, or a dependency changed)
    call,             \* a direct invocation of one of the pure functions
    result            \* what that invocation returned (Null before it ran)

vars == <<pages, colorPagesInput, brochureCount, isA3, breakdown, error,
          effectPending, call, result>>

uiVars == <<pages, colorPagesInput, brochureCount, isA3, breakdown, error,
            effectPending>>

(***************************************************************************)
(* Bounds of the model.                                                    *)
(***************************************************************************)
MaxLen == 3          \* longest text in the component's color-pages field
MaxInput == 5        \* longest raw text given to the parser directly
MaxTokens == 3       \* most tokens of a generated page specification
MaxPages == 12       \* largest pagesPerBrochure given to the engine
MaxColor == 2        \* most colored pages given to the engine
MaxCount == 30       \* brochure counts 1..MaxCount, plus BulkCounts
MaxQuantity == 5001  \* largest quantity looked up in a price table

Null == [null |-> TRUE]

Max(a, b) == IF a > b THEN a ELSE b

Range(s) == {s[i] : i \in 1..Len(s)}

(***************************************************************************)
(* Price tables and tier lookup.                                           *)
(***************************************************************************)
bwTiers ==
    << [min |-> 1000, price |-> 4],
       [min |-> 500,  price |-> 5],
       [min |-> 250,  price |-> 6],
       [min |-> 100,  price |-> 7],
       [min |-> 50,   price |-> 9],
       [min |-> 1,    price |-> 10] >>

colorTiers ==
    << [min |-> 5000, price |-> 38],
       [min |-> 1000, price |-> 18],
       [min |-> 500,  price |-> 28],
       [min |-> 250,  price |-> 35],
       [min |-> 100,  price |-> 43],
       [min |-> 50,   price |-> 69],
       [min |-> 1,    price |-> 84] >>

RECURSIVE TierScan(_, _, _)
TierScan(tiers, k, quantity) ==
    IF k > Len(tiers) THEN tiers[Len(tiers)].price
    ELSE IF quantity >= tiers[k].min THEN tiers[k].price
    ELSE TierScan(tiers, k + 1, quantity)

getPrice(tiers, quantity) == TierScan(tiers, 1, quantity)

(***************************************************************************)
(* String helpers of the JavaScript runtime, as parseColorPages uses them. *)
(***************************************************************************)
Digits == <<"0", "1", "2", "3", "4", "5", "6", "7", "8", "9">>

IsDigit(c) == c \in Range(Digits)

DigitValue(c) == (CHOOSE i \in 1..Len(Digits) : Digits[i] = c) - 1

IsSpace(c) == c = " "

\* the character class [0-9,\-\s]
IsAllowedChar(c) == IsDigit(c) \/ c = "," \/ c = "-" \/ IsSpace(c)

Includes(s, c) == \E i \in 1..Len(s) : s[i] = c

RECURSIVE StringSplit(_, _)
StringSplit(s, sep) ==
    IF ~Includes(s, sep) THEN <<s>>
    ELSE LET i == CHOOSE k \in 1..Len(s) :
                      s[k] = sep /\ \A m \in 1..(k - 1) : s[m] # sep
         IN  <<SubSeq(s, 1, i - 1)>> \o StringSplit(SubSeq(s, i + 1, Len(s)), sep)

RECURSIVE TrimStart(_)
TrimStart(s) ==
    IF s # <<>> /\ IsSpace(Head(s)) THEN TrimStart(Tail(s)) ELSE s

RECURSIVE TrimEnd(_)
TrimEnd(s) ==
    IF s # <<>> /\ IsSpace(s[Len(s)]) THEN TrimEnd(SubSeq(s, 1, Len(s) - 1)) ELSE s

Trim(s) == TrimEnd(TrimStart(s))

MapTrim(parts) == [i \in 1..Len(parts) |-> Trim(parts[i])]

\* parseInt never meets a sign here: "+" is not an allowed character and the
\* strings it is given hold no "-", so NaN can be represented by -1.
NaN == 0 - 1

isNaN(n) == n = NaN

RECURSIVE DigitPrefixValue(_, _)
DigitPrefixValue(s, acc) ==
    IF s # <<>> /\ IsDigit(Head(s))
    THEN DigitPrefixValue(Tail(s), acc * 10 + DigitValue(Head(s)))
    ELSE acc

\* parseInt(s, 10): leading white space is skipped, the longest prefix of
\* decimal digits is the value, and without a leading digit the result is NaN.
parseInt(s) ==
    LET t == TrimStart(s)
    IN  IF t = <<>> \/ ~IsDigit(Head(t)) THEN NaN ELSE DigitPrefixValue(t, 0)

(***************************************************************************)
(* parseColorPages                                                         *)
(***************************************************************************)
NoError == [text |-> ""]   \* error is undefined (parser) or '' (component)

InvalidCharsError ==
    [text |-> "Ungueltige Zeichen. Erlaubt: Zahlen, Komma, Bindestrich."]

InvalidRangeError(token) ==
    [text |-> "Ungueltiger Bereich: ", token |-> token]

OutOfBoundsError(value, maxPage) ==
    [text |-> "Seitenzahl ueberschreitet die Gesamtseitenzahl",
     value |-> value, maxPage |-> maxPage]

\* Set.prototype.add on a Set kept in insertion order
SetAdd(resultSet, n) ==
    IF n \in Range(resultSet) THEN resultSet ELSE Append(resultSet, n)

\* true-ish test of `if (parseError)`
Truthy(e) == e.text # ""

\* mutant: the loop returns the pages collected so far with the error
RECURSIVE RangeLoopKeepsPages(_, _, _, _)
RangeLoopKeepsPages(i, end, maxPage, resultSet) ==
    IF i > end THEN [pages |-> resultSet, error |-> NoError]
    ELSE IF i > maxPage
    THEN [pages |-> resultSet, error |-> OutOfBoundsError(i, maxPage)]
    ELSE RangeLoopKeepsPages(i + 1, end, maxPage, SetAdd(resultSet, i))

\* mutant: the loop stops before end (i < end)
RECURSIVE RangeLoopExclusiveEnd(_, _, _, _)
RangeLoopExclusiveEnd(i, end, maxPage, resultSet) ==
    IF i >= end THEN [pages |-> resultSet, error |-> NoError]
    ELSE IF i > maxPage THEN [pages |-> <<>>, error |-> OutOfBoundsError(i, maxPage)]
    ELSE RangeLoopExclusiveEnd(i + 1, end, maxPage, SetAdd(resultSet, i))

\* for (let i = start; i <= end; i++) { ... }
RECURSIVE RangeLoop(_, _, _, _)
RangeLoop(i, end, maxPage, resultSet) ==
    IF i > end THEN [pages |-> resultSet, error |-> NoError]
    ELSE IF i > maxPage THEN [pages |-> <<>>, error |-> OutOfBoundsError(i, maxPage)]
    ELSE RangeLoop(i + 1, end, maxPage, SetAdd(resultSet, i))

\* for (const token of tokens) { ... }
RECURSIVE TokenLoop(_, _, _, _)
TokenLoop(tokens, k, maxPage, resultSet) ==
    IF k > Len(tokens) THEN [pages |-> resultSet, error |-> NoError]
    ELSE
      LET token == tokens[k] IN
      IF Includes(token, "-") THEN
        LET parts == MapTrim(StringSplit(token, "-"))
            start == parseInt(parts[1])
            end   == parseInt(parts[2])
        IN  IF isNaN(start) \/ isNaN(end) \/ start > end
            THEN [pages |-> <<>>, error |-> InvalidRangeError(token)]
            ELSE LET r == RangeLoop(start, end, maxPage, resultSet)
                 IN  IF Truthy(r.error) THEN r
                     ELSE TokenLoop(tokens, k + 1, maxPage, r.pages)
      ELSE
        LET num == parseInt(token)
        IN  IF isNaN(num) THEN TokenLoop(tokens, k + 1, maxPage, resultSet)
            ELSE IF num > maxPage
            THEN [pages |-> <<>>, error |-> OutOfBoundsError(num, maxPage)]
            ELSE TokenLoop(tokens, k + 1, maxPage, SetAdd(resultSet, num))

\* input.split(',').map(t => t.trim()).filter(t => t !== '')
Tokenize(input) ==
    SelectSeq(MapTrim(StringSplit(input, ",")), LAMBDA t : t # <<>>)

parseColorPages(input, maxPage) ==
    IF ~(\A i \in 1..Len(input) : IsAllowedChar(input[i]))
    THEN [pages |-> <<>>, error |-> InvalidCharsError]
    ELSE TokenLoop(Tokenize(input), 1, maxPage, <<>>)

(***************************************************************************)
(* calculateBrochureBreakdown                                              *)
(***************************************************************************)
\* Math.ceil(pagesPerBrochure / 4) * 4
TotalPages(pagesPerBrochure) == ((pagesPerBrochure + 3) \div 4) * 4

\* mutant: pageD is totalPages - 2 * j, the page pageA already holds
SheetImpressionsPageDOffByOne(totalPages, j) ==
    << <<totalPages - 2 * j, 1 + 2 * j>>,
       <<2 + 2 * j, totalPages - 2 * j>> >>

\* the two impressions [pageA, pageB], [pageC, pageD] of sheet j
SheetImpressions(totalPages, j) ==
    << <<totalPages - 2 * j, 1 + 2 * j>>,
       <<2 + 2 * j, totalPages - (2 * j + 1)>> >>

\* every impression of one brochure: sheet index j and side k
ImpressionIds(totalPages) == (0..(totalPages \div 4 - 1)) \X (1..2)

\* pair.some(p => p <= pagesPerBrochure)
IsCounted(pair, pagesPerBrochure) ==
    \E i \in 1..2 : pair[i] <= pagesPerBrochure

\* pair.some(p => p <= pagesPerBrochure && colorPages.includes(p))
IsColorImpression(pair, pagesPerBrochure, colorPages) ==
    \E i \in 1..2 : pair[i] <= pagesPerBrochure /\ pair[i] \in Range(colorPages)

\* totalColor after the loop over the sheets, for one brochure
ColorPerBrochure(pagesPerBrochure, colorPages) ==
    LET totalPages == TotalPages(pagesPerBrochure)
    IN  Cardinality({id \in ImpressionIds(totalPages) :
            LET pair == SheetImpressions(totalPages, id[1])[id[2]]
            IN  /\ IsCounted(pair, pagesPerBrochure)
                /\ IsColorImpression(pair, pagesPerBrochure, colorPages)})

\* totalBW after the loop over the sheets, for one brochure
BWPerBrochure(pagesPerBrochure, colorPages) ==
    LET totalPages == TotalPages(pagesPerBrochure)
    IN  Cardinality({id \in ImpressionIds(totalPages) :
            LET pair == SheetImpressions(totalPages, id[1])[id[2]]
            IN  /\ IsCounted(pair, pagesPerBrochure)
                /\ ~IsColorImpression(pair, pagesPerBrochure, colorPages)})

\* mutant: the A3 counts are not doubled
EffectiveNotDoubled(total, a3) == total

\* effectiveColor, effectiveBW
Effective(total, a3) == IF a3 THEN total * 2 ELSE total

\* swUnit, colorUnit
UnitPrice(tiers, effective, a3) == getPrice(tiers, effective) * (IF a3 THEN 2 ELSE 1)

\* mutant: the color surcharge limit is inclusive (effectiveColor <= 50)
CostsLimitInclusive(totalBW, totalColor, effectiveBW, effectiveColor, swUnit, colorUnit, a3) ==
    IF totalColor + totalBW > 0 THEN
      IF totalColor > 0 /\ effectiveColor <= 50 THEN
        LET colorSurcharge == IF a3 THEN 240 ELSE 120
        IN  [swSurcharge |-> 0, colorSurcharge |-> colorSurcharge,
             colorCost |-> colorSurcharge + (totalColor - 1) * colorUnit,
             swCost |-> totalBW * swUnit]
      ELSE IF totalColor = 0 /\ effectiveBW < 50 THEN
        LET swSurcharge == IF a3 THEN 90 ELSE 45
        IN  [swSurcharge |-> swSurcharge, colorSurcharge |-> 0,
             swCost |-> swSurcharge + (totalBW - 1) * swUnit,
             colorCost |-> 0]
      ELSE
        [swSurcharge |-> 0, colorSurcharge |-> 0,
         swCost |-> totalBW * swUnit,
         colorCost |-> totalColor * colorUnit]
    ELSE [swSurcharge |-> 0, colorSurcharge |-> 0, swCost |-> 0, colorCost |-> 0]

\* mutant: the two surcharges are decided independently of each other
CostsIndependentSurcharges(totalBW, totalColor, effectiveBW, effectiveColor, swUnit, colorUnit, a3) ==
    LET colorSurcharge ==
            IF totalColor > 0 /\ effectiveColor < 50
            THEN (IF a3 THEN 240 ELSE 120) ELSE 0
        swSurcharge ==
            IF totalBW > 0 /\ effectiveBW < 50
            THEN (IF a3 THEN 90 ELSE 45) ELSE 0
    IN  [swSurcharge |-> swSurcharge, colorSurcharge |-> colorSurcharge,
         colorCost |-> IF colorSurcharge > 0
                       THEN colorSurcharge + (totalColor - 1) * colorUnit
                       ELSE totalColor * colorUnit,
         swCost |-> IF swSurcharge > 0
                    THEN swSurcharge + (totalBW - 1) * swUnit
                    ELSE totalBW * swUnit]

\* the if / else-if / else of the surcharge rules (lines 137-156)
Costs(totalBW, totalColor, effectiveBW, effectiveColor, swUnit, colorUnit, a3) ==
    IF totalColor + totalBW > 0 THEN
      IF totalColor > 0 /\ effectiveColor < 50 THEN
        LET colorSurcharge == IF a3 THEN 240 ELSE 120
        IN  [swSurcharge |-> 0, colorSurcharge |-> colorSurcharge,
             colorCost |-> colorSurcharge + (totalColor - 1) * colorUnit,
             swCost |-> totalBW * swUnit]
      ELSE IF totalColor = 0 /\ effectiveBW < 50 THEN
        LET swSurcharge == IF a3 THEN 90 ELSE 45
        IN  [swSurcharge |-> swSurcharge, colorSurcharge |-> 0,
             swCost |-> swSurcharge + (totalBW - 1) * swUnit,
             colorCost |-> 0]
      ELSE
        [swSurcharge |-> 0, colorSurcharge |-> 0,
         swCost |-> totalBW * swUnit,
         colorCost |-> totalColor * colorUnit]
    ELSE [swSurcharge |-> 0, colorSurcharge |-> 0, swCost |-> 0, colorCost |-> 0]

\* mutant: a 5-page brochure is not bound (pagesPerBrochure <= 5)
BindingCostFromSixPages(pagesPerBrochure, count) ==
    IF pagesPerBrochure <= 5 THEN 0 ELSE count * 18

\* bindingCost
BindingCost(pagesPerBrochure, count) ==
    IF pagesPerBrochure < 5 THEN 0 ELSE count * 18

\* bindingCount
BindingCount(pagesPerBrochure, count) ==
    IF pagesPerBrochure < 5 THEN 0 ELSE count

calculateBrochureBreakdown(pagesPerBrochure, colorPages, count, a3) ==
    LET totalColor == ColorPerBrochure(pagesPerBrochure, colorPages) * count
        totalBW == BWPerBrochure(pagesPerBrochure, colorPages) * count
        effectiveColor == Effective(totalColor, a3)
        effectiveBW == Effective(totalBW, a3)
        swUnit == UnitPrice(bwTiers, effectiveBW, a3)
        colorUnit == UnitPrice(colorTiers, effectiveColor, a3)
        c == Costs(totalBW, totalColor, effectiveBW, effectiveColor,
                   swUnit, colorUnit, a3)
        bindingCost == BindingCost(pagesPerBrochure, count)
    IN  [swCount |-> totalBW,
         effectiveSwCount |-> effectiveBW,
         swUnitPrice |-> swUnit,
         swSurcharge |-> c.swSurcharge,
         swTotal |-> c.swCost,
         colorCount |-> totalColor,
         effectiveColorCount |-> effectiveColor,
         colorUnitPrice |-> colorUnit,
         colorSurcharge |-> c.colorSurcharge,
         colorTotal |-> c.colorCost,
         bindingCount |-> BindingCount(pagesPerBrochure, count),
         bindingCost |-> bindingCost,
         totalCost |-> c.swCost + c.colorCost + bindingCost]

(***************************************************************************)
(* The BrochureCalculator component.                                       *)
(***************************************************************************)
\* characters a user types into the color-pages field ("x" is one the
\* handler filters out)
TypedChars == {"1", "9", ",", "-", " ", "x"}

\* numbers a user enters in the two number fields: parseInt(value, 10) || 0
TypedPages == {0, 3, 4, 8}
TypedCounts == {0, 1, 30}

\* value.replace(/[^0-9,\-\s]/g, '')
FilterAllowed(value) == SelectSeq(value, IsAllowedChar)

\* a state setter schedules the effect when it changes a dependency
Schedules(old, new) == effectPending \/ old # new

\* React runs the effect of a committed render before it renders the next
\* state update, so a handler's update is applied with no effect pending.
Rendered == ~effectPending

idle == call = Null /\ result = Null

UiInit ==
    /\ pages = 8
    /\ colorPagesInput = <<>>
    /\ brochureCount = 1
    /\ isA3 = FALSE
    /\ breakdown = Null
    /\ error = NoError
    /\ effectPending = TRUE     \* effects run after the first render

Init == UiInit /\ idle

\* onChange of "Seiten je Broschuere"
setPages ==
    \E n \in TypedPages :
        /\ Rendered
        /\ pages' = n
        /\ effectPending' = Schedules(pages, n)
        /\ UNCHANGED <<colorPagesInput, brochureCount, isA3, breakdown, error,
                       call, result>>

\* onChange of "Anzahl Broschueren"
setBrochureCount ==
    \E n \in TypedCounts :
        /\ Rendered
        /\ brochureCount' = n
        /\ effectPending' = Schedules(brochureCount, n)
        /\ UNCHANGED <<pages, colorPagesInput, isA3, breakdown, error,
                       call, result>>

\* onChange of the A3 checkbox
setIsA3 ==
    \E checked \in BOOLEAN :
        /\ Rendered
        /\ isA3' = checked
        /\ effectPending' = Schedules(isA3, checked)
        /\ UNCHANGED <<pages, colorPagesInput, brochureCount, breakdown, error,
                       call, result>>

\* the field's value after one edit: a character typed at the end, or the
\* last character deleted
EditedValues(text) ==
    {text \o <<c>> : c \in TypedChars}
        \cup (IF text = <<>> THEN {} ELSE {SubSeq(text, 1, Len(text) - 1)})

handleColorPagesChange ==
    \E value \in EditedValues(colorPagesInput) :
        LET filtered == FilterAllowed(value) IN
        /\ Rendered
        /\ Len(filtered) <= MaxLen
        /\ colorPagesInput' = filtered
        /\ effectPending' = Schedules(colorPagesInput, filtered)
        /\ UNCHANGED <<pages, brochureCount, isA3, breakdown, error, call, result>>

\* mutant: on a parse error the effect leaves the breakdown as it was
EffectResultKeepsBreakdown(text, maxPage, count, a3) ==
    LET parsed == parseColorPages(text, maxPage)
    IN  IF Truthy(parsed.error)
        THEN [error |-> parsed.error, breakdown |-> breakdown]
        ELSE [error |-> NoError,
              breakdown |-> calculateBrochureBreakdown(maxPage, parsed.pages, count, a3)]

\* what the effect's body leaves in (error, breakdown)
EffectResult(text, maxPage, count, a3) ==
    LET parsed == parseColorPages(text, maxPage)
    IN  IF Truthy(parsed.error)
        THEN [error |-> parsed.error, breakdown |-> Null]
        ELSE [error |-> NoError,
              breakdown |-> calculateBrochureBreakdown(maxPage, parsed.pages, count, a3)]

\* useEffect(() => {...}, [pages, colorPagesInput, brochureCount, isA3])
useEffect ==
    /\ effectPending
    /\ LET r == EffectResult(colorPagesInput, pages, brochureCount, isA3)
       IN  /\ error' = r.error
           /\ breakdown' = r.breakdown
    /\ effectPending' = FALSE
    /\ UNCHANGED <<pages, colorPagesInput, brochureCount, isA3, call, result>>

Next ==
    \/ setPages
    \/ setBrochureCount
    \/ setIsA3
    \/ handleColorPagesChange
    \/ useEffect

Spec == Init /\ [][Next]_vars

(***************************************************************************)
(* Direct invocations of the pure functions.  The component's state stays  *)
(* as constructed; call holds the arguments and result what was returned.  *)
(***************************************************************************)
\* ---- getPrice ----
TierTables == {bwTiers, colorTiers}

\* the next quantity, and every tier threshold above the current quantity
LargerQuantities(tiers, quantity) ==
    {q \in {quantity + 1} \cup {tiers[k].min : k \in 1..Len(tiers)} :
        q > quantity /\ q <= MaxQuantity}

PriceInit ==
    /\ UiInit
    /\ \E tiers \in TierTables :
           call = [fn |-> "getPrice", tiers |-> tiers, quantity |-> 0]
    /\ result = Null

LookupPrice ==
    /\ result = Null
    /\ result' = [price |-> getPrice(call.tiers, call.quantity)]
    /\ UNCHANGED <<uiVars, call>>

LookupLargerQuantity ==
    /\ result # Null
    /\ \E q \in LargerQuantities(call.tiers, call.quantity) :
           /\ call' = [call EXCEPT !.quantity = q]
           /\ result' = [price |-> getPrice(call.tiers, q)]
    /\ UNCHANGED uiVars

PriceNext == LookupPrice \/ LookupLargerQuantity

SpecPrice == PriceInit /\ [][PriceNext]_vars

\* ---- parseColorPages on raw text ----
InputChars == {"0", "1", "3", ",", "-", " ", "x"}

MaxPageChoices == {2, 12}

ParseInit ==
    /\ UiInit
    /\ \E maxPage \in MaxPageChoices :
           call = [fn |-> "parseColorPages", input |-> <<>>, maxPage |-> maxPage]
    /\ result = Null

TypeChar ==
    /\ result = Null
    /\ Len(call.input) < MaxInput
    /\ \E c \in InputChars : call' = [call EXCEPT !.input = Append(@, c)]
    /\ UNCHANGED <<uiVars, result>>

Parse ==
    /\ result = Null
    /\ result' = parseColorPages(call.input, call.maxPage)
    /\ UNCHANGED <<uiVars, call>>

ParseNext == TypeChar \/ Parse

SpecParse == ParseInit /\ [][ParseNext]_vars

\* ---- parseColorPages on a generated page specification ----
TokenNumbers == {0, 2, 12}

\* a single number, a range "a-b" (in either order) or an empty token
TokenChoices ==
    [kind : {"number"}, n : TokenNumbers]
        \cup [kind : {"range"}, a : TokenNumbers, b : TokenNumbers]
        \cup {[kind |-> "empty"]}

RECURSIVE FormatNumber(_)
FormatNumber(n) ==
    IF n < 10 THEN <<Digits[n + 1]>>
    ELSE FormatNumber(n \div 10) \o <<Digits[(n % 10) + 1]>>

\* how a specification is written: bare, with white space around every
\* number, or with a leading zero on every number
Styles == {"plain", "spaced", "zeros"}

FormatToken(t, style) ==
    LET pad == IF style = "spaced" THEN <<" ">> ELSE <<>>
        zero == IF style = "zeros" THEN <<"0">> ELSE <<>>
    IN  CASE t.kind = "number" -> pad \o zero \o FormatNumber(t.n) \o pad
          [] t.kind = "range" ->
                pad \o zero \o FormatNumber(t.a) \o pad \o <<"-">> \o pad
                    \o zero \o FormatNumber(t.b) \o pad
          [] OTHER -> pad

RECURSIVE FormatTokens(_, _)
FormatTokens(tokens, style) ==
    IF tokens = <<>> THEN <<>>
    ELSE IF Len(tokens) = 1 THEN FormatToken(tokens[1], style)
    ELSE FormatTokens(SubSeq(tokens, 1, Len(tokens) - 1), style)
            \o <<",">> \o FormatToken(tokens[Len(tokens)], style)

TokensInit ==
    /\ UiInit
    /\ \E maxPage \in MaxPageChoices, style \in Styles :
           call = [fn |-> "parseColorPages", tokens |-> <<>>, style |-> style,
                   input |-> <<>>, maxPage |-> maxPage]
    /\ result = Null

AppendToken ==
    /\ result = Null
    /\ Len(call.tokens) < MaxTokens
    /\ \E t \in TokenChoices :
           LET tokens == Append(call.tokens, t)
           IN  call' = [call EXCEPT !.tokens = tokens,
                                    !.input = FormatTokens(tokens, call.style)]
    /\ UNCHANGED <<uiVars, result>>

TokensNext == AppendToken \/ Parse

SpecTokens == TokensInit /\ [][TokensNext]_vars

\* ---- calculateBrochureBreakdown ----
BulkCounts == {50, 125, 250, 625, 1250}

\* parseInt(value, 10) || 0 of the number fields can also be 0 or negative
CountChoices == ((0 - 1)..MaxCount) \cup BulkCounts

PagesChoices == (0 - 1)..MaxPages

RECURSIVE Ascending(_)
Ascending(S) ==
    IF S = {} THEN <<>>
    ELSE LET m == CHOOSE x \in S : \A y \in S : x <= y
         IN  <<m>> \o Ascending(S \ {m})

\* page lists the parser can return for maxPage = pagesPerBrochure
ColorPagesChoices(pagesPerBrochure) ==
    {Ascending(S) : S \in {T \in SUBSET (0..pagesPerBrochure) :
                              Cardinality(T) <= MaxColor}}

BreakdownInit ==
    /\ UiInit
    /\ \E pagesPerBrochure \in PagesChoices, count \in CountChoices, a3 \in BOOLEAN :
         \E colorPages \in ColorPagesChoices(pagesPerBrochure) :
           call = [fn |-> "calculateBrochureBreakdown",
                   pagesPerBrochure |-> pagesPerBrochure,
                   colorPages |-> colorPages,
                   brochureCount |-> count,
                   isA3 |-> a3]
    /\ result = Null

Calculate ==
    /\ result = Null
    /\ result' = calculateBrochureBreakdown(call.pagesPerBrochure, call.colorPages,
                                            call.brochureCount, call.isA3)
    /\ UNCHANGED <<uiVars, call>>

BreakdownNext == Calculate

SpecBreakdown == BreakdownInit /\ [][BreakdownNext]_vars

(***************************************************************************)
(* Properties.                                                             *)
(***************************************************************************)

\* C1: tier monotonicity: for either price table, looking up a larger
\* quantity never returns a higher unit price than a smaller quantity did.
C1_TierMonotonicity ==
    [][(result # Null /\ result' # Null /\ call'.quantity >= call.quantity)
          => result'.price <= result.price]_vars

\* C3: when parseColorPages returns without an error, every returned page is
\* an integer >= 1 and <= maxPage, and no value appears twice.
C3_PagesPositiveBoundedDistinct ==
    (result # Null /\ ~Truthy(result.error)) =>
        /\ \A i \in 1..Len(result.pages) :
               result.pages[i] >= 1 /\ result.pages[i] <= call.maxPage
        /\ \A i, j \in 1..Len(result.pages) :
               i # j => result.pages[i] # result.pages[j]

\* ---- generated page specifications ----
\* the token is a number or a range a <= b (or empty) with every value <= maxPage
TokenInBounds(t, maxPage) ==
    CASE t.kind = "number" -> t.n <= maxPage
      [] t.kind = "range" -> t.a <= t.b /\ t.b <= maxPage
      [] OTHER -> TRUE

\* the token is a range a <= b that runs past maxPage
RangePastBound(t, maxPage) ==
    t.kind = "range" /\ t.a <= t.b /\ t.b > maxPage

\* the values a token lists
TokenValues(t) ==
    CASE t.kind = "number" -> {t.n}
      [] t.kind = "range" -> t.a .. t.b
      [] OTHER -> {}

\* the position of a range past the bound that only in-bounds tokens precede
FirstRangePastBound(tokens, maxPage) ==
    {k \in 1..Len(tokens) :
        /\ RangePastBound(tokens[k], maxPage)
        /\ \A m \in 1..(k - 1) : TokenInBounds(tokens[m], maxPage)}

\* C6: a range start-end with start <= end and end > maxPage, preceded only
\* by valid in-bounds tokens, makes parseColorPages return the
\* page-out-of-bounds error citing max(start, maxPage + 1) and maxPage,
\* together with an empty page list.
C6_RangePastBoundAborts ==
    result # Null =>
        \A k \in FirstRangePastBound(call.tokens, call.maxPage) :
            /\ result.error =
                   OutOfBoundsError(Max(call.tokens[k].a, call.maxPage + 1),
                                    call.maxPage)
            /\ result.pages = <<>>

\* C6 witness: pages were collected from an earlier token and from the
\* in-bounds part of the range before the parse aborted.
C6_Witness ==
    /\ result # Null
    /\ \E k \in FirstRangePastBound(call.tokens, call.maxPage) :
           /\ k > 1
           /\ call.tokens[1].kind = "number"
           /\ call.tokens[k].a <= call.maxPage
           /\ Truthy(result.error)
           /\ result.error.value = call.maxPage + 1

\* C7: on a comma-separated list of numbers and ranges a <= b (white space
\* and empty tokens allowed) whose values are all <= maxPage,
\* parseColorPages returns no error and, as a set, exactly the listed values.
C7_WellFormedResult ==
    (result # Null
        /\ \A k \in 1..Len(call.tokens) : TokenInBounds(call.tokens[k], call.maxPage))
    =>  /\ ~Truthy(result.error)
        /\ Range(result.pages) =
               UNION {TokenValues(call.tokens[k]) : k \in 1..Len(call.tokens)}

\* C7 witness: a two-digit range, a number inside that range (a duplicate)
\* and an empty token, written with white space, parsed without error.
C7_Witness ==
    /\ result # Null
    /\ call.style = "spaced"
    /\ call.maxPage = 12
    /\ call.tokens = <<[kind |-> "range", a |-> 2, b |-> 12],
                       [kind |-> "empty"],
                       [kind |-> "number", n |-> 12]>>
    /\ ~Truthy(result.error)
    /\ Len(result.pages) = 11

\* C8: once the effect has run, error and breakdown are determined by the
\* current inputs alone: the parser's error with a null breakdown, or no
\* error with the breakdown of the current inputs; and a breakdown is never
\* held together with an error.
C8_DisplayFollowsInputs ==
    /\ Truthy(error) => breakdown = Null
    /\ ~effectPending =>
         LET parsed == parseColorPages(colorPagesInput, pages)
         IN  IF Truthy(parsed.error)
             THEN error = parsed.error /\ breakdown = Null
             ELSE /\ error = NoError
                  /\ breakdown = calculateBrochureBreakdown(
                                     pages, parsed.pages, brochureCount, isA3)

\* C8 witness: after input changes the effect replaced an earlier display by
\* the parser's error for the current text.
C8_Witness ==
    /\ ~effectPending
    /\ colorPagesInput = <<"1", "-", "9">>
    /\ pages = 4
    /\ isA3
    /\ Truthy(error)
    /\ breakdown = Null

\* ---- the engine on valid inputs ----
ValidCall == call.pagesPerBrochure >= 1 /\ call.brochureCount >= 1

\* the same call with another size flag
WithSize(a3) ==
    calculateBrochureBreakdown(call.pagesPerBrochure, call.colorPages,
                               call.brochureCount, a3)

\* the same call with other colored pages
WithColorPages(colorPages) ==
    calculateBrochureBreakdown(call.pagesPerBrochure, colorPages,
                               call.brochureCount, call.isA3)

\* C2 as claimed: the A3 breakdown has the raw counts of the A4 breakdown,
\* twice its effective counts, twice its unit prices and twice its surcharges.
C2_A3DoublesA4 ==
    (result # Null /\ ValidCall /\ call.isA3) =>
        LET a4 == WithSize(FALSE) IN
        /\ result.swCount = a4.swCount
        /\ result.colorCount = a4.colorCount
        /\ result.effectiveSwCount = 2 * a4.effectiveSwCount
        /\ result.effectiveColorCount = 2 * a4.effectiveColorCount
        /\ result.swUnitPrice = 2 * a4.swUnitPrice
        /\ result.colorUnitPrice = 2 * a4.colorUnitPrice
        /\ result.swSurcharge = 2 * a4.swSurcharge
        /\ result.colorSurcharge = 2 * a4.colorSurcharge

\* C2 amended: the A3 breakdown has the raw counts of the A4 breakdown and
\* twice its effective counts; each A3 unit price is twice the table price at
\* the doubled effective count (twice the A4 unit price when the doubled
\* count is in the same tier); each A3 surcharge is twice the A4 surcharge
\* when the doubled effective count of its category is below 50, and 0
\* otherwise.
C2_A3DoublesTableAtEffectiveCount ==
    (result # Null /\ ValidCall /\ call.isA3) =>
        LET a4 == WithSize(FALSE) IN
        /\ result.swCount = a4.swCount
        /\ result.colorCount = a4.colorCount
        /\ result.effectiveSwCount = 2 * a4.effectiveSwCount
        /\ result.effectiveColorCount = 2 * a4.effectiveColorCount
        /\ result.swUnitPrice = 2 * getPrice(bwTiers, result.effectiveSwCount)
        /\ result.colorUnitPrice = 2 * getPrice(colorTiers, result.effectiveColorCount)
        /\ getPrice(bwTiers, result.effectiveSwCount)
               = getPrice(bwTiers, a4.effectiveSwCount)
             => result.swUnitPrice = 2 * a4.swUnitPrice
        /\ getPrice(colorTiers, result.effectiveColorCount)
               = getPrice(colorTiers, a4.effectiveColorCount)
             => result.colorUnitPrice = 2 * a4.colorUnitPrice
        /\ result.swSurcharge =
               IF result.effectiveSwCount < 50 THEN 2 * a4.swSurcharge ELSE 0
        /\ result.colorSurcharge =
               IF result.effectiveColorCount < 50 THEN 2 * a4.colorSurcharge ELSE 0

\* C2 witness: an A3 job whose doubled color count reaches the next tier and
\* loses the surcharge the A4 job pays.
C2_Witness ==
    /\ result # Null /\ ValidCall /\ call.isA3
    /\ result.colorCount = 30
    /\ result.effectiveColorCount = 60
    /\ result.colorSurcharge = 0
    /\ result.colorUnitPrice = 138
    /\ WithSize(FALSE).colorSurcharge = 120

\* C4: the surcharge policy on valid inputs: (1) color impressions with an
\* effective color count below 50 pay the color surcharge (1.20, A3 2.40)
\* for one impression and the unit price for the others, monochrome is
\* count * unit price; (2) no color impressions and an effective monochrome
\* count below 50 pay the monochrome surcharge (0.45, A3 0.90) likewise, and
\* the color total is 0; (3) otherwise no surcharge and count * unit price.
\* The unit prices are the table prices at the effective counts (doubled for A3).
C4_SurchargePolicy ==
    (result # Null /\ ValidCall) =>
        LET r == result
            factor == IF call.isA3 THEN 2 ELSE 1
        IN
        /\ r.swUnitPrice = getPrice(bwTiers, r.effectiveSwCount) * factor
        /\ r.colorUnitPrice = getPrice(colorTiers, r.effectiveColorCount) * factor
        /\ IF r.colorCount > 0 /\ r.effectiveColorCount < 50 THEN
             /\ r.colorSurcharge = 120 * factor
             /\ r.colorTotal = r.colorSurcharge + (r.colorCount - 1) * r.colorUnitPrice
             /\ r.swSurcharge = 0
             /\ r.swTotal = r.swCount * r.swUnitPrice
           ELSE IF r.colorCount = 0 /\ r.effectiveSwCount < 50 THEN
             /\ r.swSurcharge = 45 * factor
             /\ r.swTotal = r.swSurcharge + (r.swCount - 1) * r.swUnitPrice
             /\ r.colorSurcharge = 0
             /\ r.colorTotal = 0
           ELSE
             /\ r.swSurcharge = 0
             /\ r.colorSurcharge = 0
             /\ r.swTotal = r.swCount * r.swUnitPrice
             /\ r.colorTotal = r.colorCount * r.colorUnitPrice

\* C4 witness: an A3 job with both categories present and few color
\* impressions: the color surcharge of 2.40 and the other 7 at 2 * 0.84.
C4_Witness ==
    /\ result # Null /\ ValidCall /\ call.isA3
    /\ result.colorCount = 8
    /\ result.swCount = 16
    /\ result.colorSurcharge = 240
    /\ result.colorTotal = 240 + 7 * 168
    /\ result.swTotal = 16 * 20

\* C5: a breakdown never has both surcharges; when both categories are
\* present with both effective counts below 50 only the color surcharge is
\* applied.
C5_SurchargesExclusive ==
    result # Null =>
        /\ ~(result.swSurcharge > 0 /\ result.colorSurcharge > 0)
        /\ (/\ result.colorCount > 0 /\ result.swCount > 0
            /\ result.effectiveColorCount < 50 /\ result.effectiveSwCount < 50)
           => (result.colorSurcharge > 0 /\ result.swSurcharge = 0)

\* C5 witness: both categories present and small; the color surcharge alone.
C5_Witness ==
    /\ result # Null
    /\ result.colorCount = 1
    /\ result.swCount = 3
    /\ result.colorSurcharge = 120
    /\ result.swSurcharge = 0

\* C9: on valid inputs, fewer than 5 pages mean no binding (count 0, cost 0);
\* otherwise the binding count is brochureCount and the cost 0.18 each;
\* neither depends on colorPages or isA3.
C9_BindingRule ==
    (result # Null /\ ValidCall) =>
        /\ IF call.pagesPerBrochure < 5
           THEN result.bindingCount = 0 /\ result.bindingCost = 0
           ELSE /\ result.bindingCount = call.brochureCount
                /\ result.bindingCost = call.brochureCount * 18
        /\ \A other \in {WithSize(~call.isA3), WithColorPages(<<>>)} :
               /\ other.bindingCount = result.bindingCount
               /\ other.bindingCost = result.bindingCost

\* C9 witness: a 5-page job is bound, one binding per brochure.
C9_Witness ==
    /\ result # Null
    /\ call.pagesPerBrochure = 5
    /\ call.brochureCount = 7
    /\ call.colorPages # <<>>
    /\ result.bindingCount = 7
    /\ result.bindingCost = 126

\* the page number in slot i of impression id
Slot(totalPages, id, i) == SheetImpressions(totalPages, id[1])[id[2]][i]

\* C10: the slots of the imposition hold every page 1..totalPages exactly
\* once; so a single colored page within the brochure makes exactly one
\* impression per brochure color, and swCount + colorCount does not depend
\* on colorPages.
C10_ImpositionBijection ==
    (result # Null /\ ValidCall) =>
        LET totalPages == TotalPages(call.pagesPerBrochure)
            slots == ImpressionIds(totalPages) \X (1..2)
        IN
        /\ totalPages % 4 = 0
        /\ totalPages >= call.pagesPerBrochure
        /\ totalPages < call.pagesPerBrochure + 4
        \* as many slots as pages, and the slots hold exactly the pages
        \* 1..totalPages: every page is in one slot and in no second one
        /\ Cardinality(slots) = totalPages
        /\ {Slot(totalPages, s[1], s[2]) : s \in slots} = 1..totalPages
        /\ (Len(call.colorPages) = 1 /\ call.colorPages[1] >= 1)
               => result.colorCount = call.brochureCount
        /\ result.swCount + result.colorCount
               = LET plain == WithColorPages(<<>>)
                 IN  plain.swCount + plain.colorCount

\* C10 witness: a 12-page brochure (three sheets) with the single colored
\* page 7, one color impression per brochure.
C10_Witness ==
    /\ result # Null
    /\ call.pagesPerBrochure = 12
    /\ call.colorPages = <<7>>
    /\ call.brochureCount = 3
    /\ result.colorCount = 3
    /\ result.swCount = 15

====
